---- MODULE Spec2Model ----
(***************************************************************************)
(* Breadth-first simulation of a nondeterministic single-tape Turing       *)
(* machine, after NondeterministicTuringMachine in TM_trace_nefario.py.    *)
(* A tape is a sequence of one-character symbols (a Python str), a         *)
(* configuration is the triple <<left_tape, state, right_tape>>, the tree  *)
(* is a sequence of levels and a level is a sequence of configurations.    *)
(***************************************************************************)
EXTENDS Integers, Sequences, FiniteSets, TLC

VARIABLES
    rows,             \* rows[7:] of the definition file, one 5-tuple per transition
    start_state,      \* self.start_state
    accept_state,     \* self.accept_state
    reject_state,     \* self.reject_state
    input_string,     \* argument of run
    max_depth,        \* self.max_depth, set from the argument of run
    max_transitions,  \* self.max_transitions, set from the argument of run
    tree,             \* local of run: the levels built so far
    transitions,      \* local of run: the transition counter
    next_level,       \* local of run: successors gathered in the current scan
    idx,              \* number of configurations of tree[-1] the for loop has passed
    pc,               \* position in run: "while", "for", "done" ("shift": no run)
    outcome,          \* which report run printed ("none" while it runs)
    depth,            \* the number the report prints (-1 while run has printed none)
    shift,            \* two successive head moves applied to one configuration
    transition_keys,  \* the keys of the dict self.transitions
    printed,          \* the "Level n: config" lines print_accept_path has printed
    program           \* the locals and the report of run in program.py

vars == <<rows, start_state, accept_state, reject_state, input_string, max_depth,
          max_transitions, tree, transitions, next_level, idx, pc, outcome, depth,
          shift, transition_keys, printed, program>>

machineVars == <<rows, start_state, accept_state, reject_state, input_string,
                 max_depth, max_transitions, transition_keys>>

runVars == <<tree, transitions, next_level, idx, pc, outcome, depth, printed>>

-----------------------------------------------------------------------------
(* Bounds of the model *)

MaxInputLen == 2

MaxDepthLimit == 4

MaxBudget == 7

MaxTapeLen == 2

(* Defaults of run's keyword arguments *)

DefaultMaxDepth == 100

DefaultMaxTransitions == 1000

-----------------------------------------------------------------------------
(* Alphabets and the machine definitions the runs are drawn from *)

Blank == "_"

Sigma == {"0", "1"}

Gamma == Sigma \cup {Blank}

States == {"q0", "q1", "qa", "qr"}

RECURSIVE Strings(_, _)
Strings(alphabet, n) ==
    IF n = 0 THEN {<<>>}
    ELSE LET shorter == Strings(alphabet, n - 1)
         IN  shorter \cup {Append(s, a) : s \in {t \in shorter : Len(t) = n - 1},
                                          a \in alphabet}

\* no transition row at all
NoMoves == <<>>

\* walks right over the input and accepts on the first blank
ScanRight ==
    << <<"q0", "0", "q0", "0", "R">>,
       <<"q0", "1", "q0", "1", "R">>,
       <<"q0", "_", "qa", "_", "R">> >>

\* deterministic and never halting: bounces between two cells
Bounce ==
    << <<"q0", "0", "q1", "1", "R">>,
       <<"q0", "1", "q1", "0", "R">>,
       <<"q0", "_", "q1", "_", "R">>,
       <<"q1", "0", "q0", "0", "L">>,
       <<"q1", "1", "q0", "1", "L">>,
       <<"q1", "_", "q0", "_", "L">> >>

\* nondeterministic: two rows for most keys, branches accept at unequal depths
Branch ==
    << <<"q0", "0", "q0", "1", "R">>,
       <<"q0", "0", "q1", "0", "L">>,
       <<"q0", "1", "qa", "1", "R">>,
       <<"q0", "1", "q1", "1", "L">>,
       <<"q0", "_", "q0", "0", "L">>,
       <<"q0", "_", "q1", "_", "R">>,
       <<"q1", "_", "q0", "1", "R">>,
       <<"q1", "0", "q1", "_", "R">>,
       <<"q1", "0", "qa", "0", "L">> >>

\* rows that enter the reject state explicitly, next to undefined moves
\* ((q0, _) and (q1, 0)) and to rows leaving the accept and the reject state
IntoReject ==
    << <<"q0", "0", "qr", "0", "R">>,
       <<"q0", "0", "qr", "1", "L">>,
       <<"q0", "1", "q1", "1", "R">>,
       <<"q0", "1", "qr", "0", "R">>,
       <<"q0", "1", "q0", "1", "R">>,
       <<"q1", "1", "qa", "1", "L">>,
       <<"q1", "1", "q1", "0", "R">>,
       <<"q1", "_", "q1", "_", "L">>,
       <<"qr", "0", "q0", "0", "R">>,
       <<"qa", "0", "q0", "0", "R">>,
       <<"qa", "_", "q0", "_", "R">> >>

\* every key of q0 has two rows, so the levels double in width
Fork ==
    << <<"q0", "0", "q0", "0", "R">>,
       <<"q0", "0", "q0", "1", "L">>,
       <<"q0", "1", "q0", "0", "R">>,
       <<"q0", "1", "q0", "1", "L">>,
       <<"q0", "_", "q0", "0", "R">>,
       <<"q0", "_", "q0", "1", "L">> >>

Machines == {NoMoves, ScanRight, Bounce, Branch, IntoReject, Fork}

-----------------------------------------------------------------------------
(* load_machine: self.transitions[(current_state, read_symbol)] is the list  *)
(* of (new_state, write_symbol, direction) of the matching rows, in file      *)
(* order; get(key, []) gives the empty list for a key no row has.             *)

RECURSIVE TransitionsGet(_, _, _)
TransitionsGet(rs, state, head_symbol) ==
    IF rs = <<>> THEN <<>>
    ELSE LET row  == Head(rs)
             rest == TransitionsGet(Tail(rs), state, head_symbol)
         IN  IF row[1] = state /\ row[2] = head_symbol
             THEN <<<<row[3], row[4], row[5]>>>> \o rest
             ELSE rest

(* Configurations *)

InitialConfig == <<<<>>, start_state, input_string>>

HeadSymbol(right_tape) == IF right_tape /= <<>> THEN right_tape[1] ELSE Blank

Front(s) == SubSeq(s, 1, Len(s) - 1)

Last(s) == s[Len(s)]

\* WriteSymbol that writes nothing when the right tape is empty
WriteSymbolSkipsEmpty(right_tape, write_symbol) ==
    IF right_tape /= <<>>
    THEN [right_tape EXCEPT ![1] = write_symbol]
    ELSE right_tape

\* lines 81-84: write the symbol under the head
WriteSymbol(right_tape, write_symbol) ==
    IF right_tape /= <<>>
    THEN [right_tape EXCEPT ![1] = write_symbol]
    ELSE <<write_symbol>>

\* MoveLeft that stays put at the left end instead of synthesising a blank
MoveLeftStaysAtEdge(left_tape, right_tape) ==
    IF left_tape /= <<>>
    THEN <<Front(left_tape), <<Last(left_tape)>> \o right_tape>>
    ELSE <<left_tape, right_tape>>

\* lines 87-91: move the head one cell to the left
MoveLeft(left_tape, right_tape) ==
    IF left_tape /= <<>>
    THEN <<Front(left_tape), <<Last(left_tape)>> \o right_tape>>
    ELSE <<left_tape, <<Blank>> \o right_tape>>

\* lines 92-96: move the head one cell to the right
MoveRight(left_tape, right_tape) ==
    LET moved == IF right_tape /= <<>>
                 THEN <<Append(left_tape, Head(right_tape)), Tail(right_tape)>>
                 ELSE <<left_tape, right_tape>>
    IN  IF moved[2] = <<>> THEN <<moved[1], <<Blank>>>> ELSE moved

\* lines 77-99: the successor of a configuration under one table entry
Successor(config, entry) ==
    LET written == WriteSymbol(config[3], entry[2])
        tapes   == IF entry[3] = "L" THEN MoveLeft(config[1], written)
                   ELSE IF entry[3] = "R" THEN MoveRight(config[1], written)
                   ELSE <<config[1], written>>
    IN  <<tapes[1], entry[1], tapes[2]>>

\* Successors with no implicit successor for an undefined move
SuccessorsNoImplicitReject(config) ==
    LET possible_transitions == TransitionsGet(rows, config[2], HeadSymbol(config[3]))
    IN  [i \in 1..Len(possible_transitions) |->
            Successor(config, possible_transitions[i])]

\* Successors whose implicit successor keeps the state it was scanned in
SuccessorsKeepState(config) ==
    LET possible_transitions == TransitionsGet(rows, config[2], HeadSymbol(config[3]))
    IN  IF possible_transitions = <<>>
        THEN << <<config[1], config[2], config[3]>> >>
        ELSE [i \in 1..Len(possible_transitions) |->
                 Successor(config, possible_transitions[i])]

\* lines 68-99: what one scanned configuration adds to next_level
Successors(config) ==
    LET possible_transitions == TransitionsGet(rows, config[2], HeadSymbol(config[3]))
    IN  IF possible_transitions = <<>>
        THEN << <<config[1], reject_state, config[3]>> >>
        ELSE [i \in 1..Len(possible_transitions) |->
                 Successor(config, possible_transitions[i])]

current_level == tree[Len(tree)]

\* line 36: the keys the defaultdict holds after load_machine
KeysOf(rs) == {<<rs[i][1], rs[i][2]>> : i \in 1..Len(rs)}

RECURSIVE LevelLines(_, _, _)
LevelLines(t, level, last) ==
    IF level > last THEN <<>>
    ELSE [i \in 1..Len(t[level + 1]) |-> <<level, t[level + 1][i]>>]
         \o LevelLines(t, level + 1, last)

\* PrintAcceptPath whose loop is range(depth) instead of range(depth + 1)
PrintAcceptPathShort(t, d) == LevelLines(t, 0, d - 1)

\* lines 119-127: one line per configuration of the levels 0..depth
PrintAcceptPath(t, d) == LevelLines(t, 0, d)

\* AllReject with any(...) taken over the reject states: one rejecting
\* configuration is enough
AllRejectSome(level) ==
    level = <<>> \/ \E i \in 1..Len(level) : level[i][2] = reject_state

\* line 112: not any(config[1] != self.reject_state for config in next_level)
AllReject(level) == \A i \in 1..Len(level) : level[i][2] = reject_state

-----------------------------------------------------------------------------
(* run *)

NoShift ==
    [stage |-> 0, original |-> <<>>, config |-> <<>>, write_symbol |-> Blank,
     direction |-> "L"]

\* program.py lines 43-45: the locals of run on entry, before any report
ProgramEntry ==
    [tree |-> <<<<InitialConfig>>>>, transitions |-> 0, next_level |-> <<>>,
     idx |-> 0, pc |-> "while", outcome |-> "none", depth |-> -1, printed |-> <<>>]

\* lines 40-45, for one machine, one input and one pair of limits
InitRun(depths, budgets) ==
    /\ rows \in Machines
    /\ start_state \in States
    /\ accept_state \in {"qa", "q1"}
    /\ reject_state = "qr"
    /\ input_string \in Strings(Sigma, MaxInputLen)
    /\ max_depth \in depths
    /\ max_transitions \in budgets
    /\ tree = <<<<InitialConfig>>>>
    /\ transitions = 0
    /\ next_level = <<>>
    /\ idx = 0
    /\ pc = "while"
    /\ outcome = "none"
    /\ depth = -1
    /\ shift = NoShift
    /\ transition_keys = KeysOf(rows)
    /\ printed = <<>>
    /\ program = ProgramEntry

Init == InitRun(0..MaxDepthLimit, 0..MaxBudget)

InitDefault == InitRun({DefaultMaxDepth}, {DefaultMaxTransitions})

Halt(report, number) ==
    /\ pc' = "done"
    /\ outcome' = report
    /\ depth' = number

\* WhileGuard with the counter compared by <= instead of <
WhileGuardInclusive ==
    /\ pc = "while"
    /\ IF tree /= <<>> /\ transitions <= max_transitions
       THEN /\ pc' = "for"
            /\ next_level' = <<>>
            /\ idx' = 0
            /\ UNCHANGED <<outcome, depth>>
       ELSE /\ Halt("NoValidPaths", Len(tree))
            /\ UNCHANGED <<next_level, idx>>
    /\ UNCHANGED <<machineVars, tree, transitions, shift, program, printed>>

\* line 47 and, when the guard fails, line 116
WhileGuard ==
    /\ pc = "while"
    /\ IF tree /= <<>> /\ transitions < max_transitions
       THEN /\ pc' = "for"
            /\ next_level' = <<>>
            /\ idx' = 0
            /\ UNCHANGED <<outcome, depth>>
       ELSE /\ Halt("NoValidPaths", Len(tree))
            /\ UNCHANGED <<next_level, idx>>
    /\ UNCHANGED <<machineVars, tree, transitions, shift, program, printed>>

\* ScanAccept reporting len(tree) instead of len(tree) - 1
ScanAcceptDepthOffByOne ==
    /\ pc = "for"
    /\ idx < Len(current_level)
    /\ current_level[idx + 1][2] = accept_state
    /\ Halt("Accepted", Len(tree))
    /\ printed' = PrintAcceptPath(tree, Len(tree) - 1)
    /\ UNCHANGED <<machineVars, tree, transitions, next_level, idx, shift, program>>

\* lines 52-55: the scanned configuration is accepting
ScanAccept ==
    /\ pc = "for"
    /\ idx < Len(current_level)
    /\ current_level[idx + 1][2] = accept_state
    /\ Halt("Accepted", Len(tree) - 1)
    /\ printed' = PrintAcceptPath(tree, Len(tree) - 1)
    /\ UNCHANGED <<machineVars, tree, transitions, next_level, idx, shift, program>>

\* lines 57-58: the scanned configuration is rejecting
ScanReject ==
    /\ pc = "for"
    /\ idx < Len(current_level)
    /\ current_level[idx + 1][2] /= accept_state
    /\ current_level[idx + 1][2] = reject_state
    /\ idx' = idx + 1
    /\ UNCHANGED <<machineVars, tree, transitions, next_level, pc, outcome, depth, shift, program, printed>>

\* lines 61-66: the increment takes the counter past the budget
ScanBudgetExceeded ==
    /\ pc = "for"
    /\ idx < Len(current_level)
    /\ current_level[idx + 1][2] /= accept_state
    /\ current_level[idx + 1][2] /= reject_state
    /\ transitions + 1 > max_transitions
    /\ transitions' = transitions + 1
    /\ Halt("BudgetExceeded", max_transitions)
    /\ UNCHANGED <<machineVars, tree, next_level, idx, shift, program, printed>>

\* Expand without the budget test of lines 64-66
ExpandIgnoringBudget ==
    /\ pc = "for"
    /\ idx < Len(current_level)
    /\ current_level[idx + 1][2] /= accept_state
    /\ current_level[idx + 1][2] /= reject_state
    /\ transitions' = transitions + 1
    /\ next_level' = next_level \o Successors(current_level[idx + 1])
    /\ idx' = idx + 1
    /\ UNCHANGED <<machineVars, tree, pc, outcome, depth, shift, program, printed>>

\* Expand putting the successors in front of next_level instead of behind it
ExpandPrepends ==
    /\ pc = "for"
    /\ idx < Len(current_level)
    /\ current_level[idx + 1][2] /= accept_state
    /\ current_level[idx + 1][2] /= reject_state
    /\ ~(transitions + 1 > max_transitions)
    /\ transitions' = transitions + 1
    /\ next_level' = Successors(current_level[idx + 1]) \o next_level
    /\ idx' = idx + 1
    /\ UNCHANGED <<machineVars, tree, pc, outcome, depth, shift, program, printed>>

\* Expand reading self.transitions[key], which makes the defaultdict add the key
ExpandInsertsKey ==
    /\ pc = "for"
    /\ idx < Len(current_level)
    /\ current_level[idx + 1][2] /= accept_state
    /\ current_level[idx + 1][2] /= reject_state
    /\ ~(transitions + 1 > max_transitions)
    /\ transitions' = transitions + 1
    /\ transition_keys' = transition_keys \cup
           {<<current_level[idx + 1][2], HeadSymbol(current_level[idx + 1][3])>>}
    /\ next_level' = next_level \o Successors(current_level[idx + 1])
    /\ idx' = idx + 1
    /\ UNCHANGED <<rows, start_state, accept_state, reject_state, input_string,
                   max_depth, max_transitions, tree, pc, outcome, depth, shift, program, printed>>

\* Expand working on the parent's own tapes instead of copies of them: the
\* parent configuration in the tree ends up with its last successor's tapes
ExpandInPlace ==
    /\ pc = "for"
    /\ idx < Len(current_level)
    /\ current_level[idx + 1][2] /= accept_state
    /\ current_level[idx + 1][2] /= reject_state
    /\ ~(transitions + 1 > max_transitions)
    /\ transitions' = transitions + 1
    /\ next_level' = next_level \o Successors(current_level[idx + 1])
    /\ idx' = idx + 1
    /\ LET successors == Successors(current_level[idx + 1])
           last == successors[Len(successors)]
       IN  tree' = [tree EXCEPT ![Len(tree)][idx + 1] = <<last[1], @[2], last[3]>>]
    /\ UNCHANGED <<machineVars, pc, outcome, depth, shift, program, printed>>

\* lines 61-99: the scanned configuration is expanded
Expand ==
    /\ pc = "for"
    /\ idx < Len(current_level)
    /\ current_level[idx + 1][2] /= accept_state
    /\ current_level[idx + 1][2] /= reject_state
    /\ ~(transitions + 1 > max_transitions)
    /\ transitions' = transitions + 1
    /\ next_level' = next_level \o Successors(current_level[idx + 1])
    /\ idx' = idx + 1
    /\ UNCHANGED <<machineVars, tree, pc, outcome, depth, shift, program, printed>>

\* EndLevel with the all-reject test skipped for a scan that produced nothing
EndLevelIgnoresEmpty ==
    /\ pc = "for"
    /\ idx = Len(current_level)
    /\ tree' = IF next_level /= <<>> THEN Append(tree, next_level) ELSE tree
    /\ idx' = IF next_level /= <<>> THEN 0 ELSE idx
    /\ IF Len(tree') > max_depth
       THEN Halt("DepthReached", max_depth)
       ELSE IF next_level /= <<>> /\ AllReject(next_level)
       THEN Halt("Rejected", Len(tree') - 1)
       ELSE /\ pc' = "while"
            /\ UNCHANGED <<outcome, depth>>
    /\ UNCHANGED <<machineVars, transitions, next_level, shift, program, printed>>

\* EndLevel with the all-reject test made before the depth test
EndLevelRejectFirst ==
    /\ pc = "for"
    /\ idx = Len(current_level)
    /\ tree' = IF next_level /= <<>> THEN Append(tree, next_level) ELSE tree
    /\ idx' = IF next_level /= <<>> THEN 0 ELSE idx
    /\ IF AllReject(next_level)
       THEN Halt("Rejected", Len(tree') - 1)
       ELSE IF Len(tree') > max_depth
       THEN Halt("DepthReached", max_depth)
       ELSE /\ pc' = "while"
            /\ UNCHANGED <<outcome, depth>>
    /\ UNCHANGED <<machineVars, transitions, next_level, shift, program, printed>>

\* EndLevel with the depth test len(tree) - 1 > max_depth
EndLevelDepthLate ==
    /\ pc = "for"
    /\ idx = Len(current_level)
    /\ tree' = IF next_level /= <<>> THEN Append(tree, next_level) ELSE tree
    /\ idx' = IF next_level /= <<>> THEN 0 ELSE idx
    /\ IF Len(tree') - 1 > max_depth
       THEN Halt("DepthReached", max_depth)
       ELSE IF AllReject(next_level)
       THEN Halt("Rejected", Len(tree') - 1)
       ELSE /\ pc' = "while"
            /\ UNCHANGED <<outcome, depth>>
    /\ UNCHANGED <<machineVars, transitions, next_level, shift, program, printed>>

\* lines 102-114: after the for loop (the cursor restarts on an appended level)
EndLevel ==
    /\ pc = "for"
    /\ idx = Len(current_level)
    /\ tree' = IF next_level /= <<>> THEN Append(tree, next_level) ELSE tree
    /\ idx' = IF next_level /= <<>> THEN 0 ELSE idx
    /\ IF Len(tree') > max_depth
       THEN Halt("DepthReached", max_depth)
       ELSE IF AllReject(next_level)
       THEN Halt("Rejected", Len(tree') - 1)
       ELSE /\ pc' = "while"
            /\ UNCHANGED <<outcome, depth>>
    /\ UNCHANGED <<machineVars, transitions, next_level, shift, program, printed>>

Next ==
    \/ WhileGuard
    \/ ScanAccept
    \/ ScanReject
    \/ ScanBudgetExceeded
    \/ Expand
    \/ EndLevel

Spec == Init /\ [][Next]_vars

\* run is one sequential call: it takes its next step whenever it has one
SpecFair == Spec /\ WF_vars(Next)

SpecDefault == InitDefault /\ [][Next]_vars

-----------------------------------------------------------------------------
(* Two successive moves of lines 77-99 on one configuration: the first       *)
(* writes write_symbol and moves in direction, the second writes back the    *)
(* symbol it reads and moves the opposite way.                               *)

Opposite(direction) == IF direction = "L" THEN "R" ELSE "L"

InitShift ==
    /\ rows = NoMoves
    /\ start_state = "q0"
    /\ accept_state = "qa"
    /\ reject_state = "qr"
    /\ input_string = <<>>
    /\ max_depth = 0
    /\ max_transitions = 0
    /\ tree = <<<<InitialConfig>>>>
    /\ transitions = 0
    /\ next_level = <<>>
    /\ idx = 0
    /\ pc = "shift"
    /\ outcome = "none"
    /\ depth = -1
    /\ transition_keys = KeysOf(rows)
    /\ printed = <<>>
    /\ program = ProgramEntry
    /\ \E left_tape \in Strings(Gamma, MaxTapeLen), right_tape \in Strings(Gamma, MaxTapeLen) :
          shift = [stage |-> 0, original |-> <<left_tape, "q0", right_tape>>,
                   config |-> <<left_tape, "q0", right_tape>>,
                   write_symbol |-> Blank, direction |-> "L"]

FirstMove ==
    /\ pc = "shift"
    /\ shift.stage = 0
    /\ \E write_symbol \in Gamma, direction \in {"L", "R"} :
          shift' = [shift EXCEPT
                      !.stage = 1,
                      !.write_symbol = write_symbol,
                      !.direction = direction,
                      !.config = Successor(shift.original, <<"q1", write_symbol, direction>>)]
    /\ UNCHANGED <<machineVars, runVars, program>>

SecondMove ==
    /\ pc = "shift"
    /\ shift.stage = 1
    /\ shift' = [shift EXCEPT
                   !.stage = 2,
                   !.config = Successor(shift.config,
                                        <<"q0", HeadSymbol(shift.config[3]),
                                          Opposite(shift.direction)>>)]
    /\ UNCHANGED <<machineVars, runVars, program>>

NextShift == FirstMove \/ SecondMove

SpecShift == InitShift /\ [][NextShift]_vars

-----------------------------------------------------------------------------
(* run of program.py, called with the same machine, input and limits once    *)
(* run of TM_trace_nefario.py has returned. Its write and move of lines      *)
(* 67-88 are those of Successor.                                             *)

\* program.py line 48
ProgramCurrentLevel == program.tree[Len(program.tree)]

ProgramScanned == ProgramCurrentLevel[program.idx + 1]

\* program.py lines 66-88: what one scanned configuration adds to next_level
ProgramSuccessors(config) ==
    LET possible_transitions == TransitionsGet(rows, config[2], HeadSymbol(config[3]))
    IN  [i \in 1..Len(possible_transitions) |->
            Successor(config, possible_transitions[i])]

\* program.py line 97
ProgramAllReject(level) == \A i \in 1..Len(level) : level[i][2] = reject_state

ProgramHalt(report, number) ==
    [program EXCEPT !.pc = "done", !.outcome = report, !.depth = number]

\* program.py line 47 and, when the guard fails, line 101 (no number printed)
ProgramWhileGuard ==
    /\ pc = "done"
    /\ program.pc = "while"
    /\ program' = IF program.tree /= <<>> /\ program.transitions < max_transitions
                  THEN [program EXCEPT !.pc = "for", !.next_level = <<>>, !.idx = 0]
                  ELSE ProgramHalt("NoValidPaths", -1)
    /\ UNCHANGED <<machineVars, runVars, shift>>

\* program.py lines 52-54
ProgramScanAccept ==
    /\ pc = "done"
    /\ program.pc = "for"
    /\ program.idx < Len(ProgramCurrentLevel)
    /\ ProgramScanned[2] = accept_state
    /\ program' = [ProgramHalt("Accepted", Len(program.tree) - 1) EXCEPT
                     !.printed = PrintAcceptPath(program.tree, Len(program.tree) - 1)]
    /\ UNCHANGED <<machineVars, runVars, shift>>

\* program.py lines 56-57
ProgramScanReject ==
    /\ pc = "done"
    /\ program.pc = "for"
    /\ program.idx < Len(ProgramCurrentLevel)
    /\ ProgramScanned[2] /= accept_state
    /\ ProgramScanned[2] = reject_state
    /\ program' = [program EXCEPT !.idx = @ + 1]
    /\ UNCHANGED <<machineVars, runVars, shift>>

\* program.py lines 59-64, the counter taken past max_transitions
ProgramScanBudgetExceeded ==
    /\ pc = "done"
    /\ program.pc = "for"
    /\ program.idx < Len(ProgramCurrentLevel)
    /\ ProgramScanned[2] /= accept_state
    /\ ProgramScanned[2] /= reject_state
    /\ program.transitions + 1 > max_transitions
    /\ program' = [ProgramHalt("BudgetExceeded", max_transitions) EXCEPT
                     !.transitions = @ + 1]
    /\ UNCHANGED <<machineVars, runVars, shift>>

\* program.py lines 59-88, the counter within max_transitions
ProgramExpand ==
    /\ pc = "done"
    /\ program.pc = "for"
    /\ program.idx < Len(ProgramCurrentLevel)
    /\ ProgramScanned[2] /= accept_state
    /\ ProgramScanned[2] /= reject_state
    /\ program.transitions + 1 <= max_transitions
    /\ program' = [program EXCEPT
                     !.transitions = @ + 1,
                     !.next_level = @ \o ProgramSuccessors(ProgramScanned),
                     !.idx = @ + 1]
    /\ UNCHANGED <<machineVars, runVars, shift>>

\* program.py lines 90-99
ProgramEndLevel ==
    /\ pc = "done"
    /\ program.pc = "for"
    /\ program.idx = Len(ProgramCurrentLevel)
    /\ LET grown == IF program.next_level /= <<>>
                    THEN Append(program.tree, program.next_level)
                    ELSE program.tree
           at == IF program.next_level /= <<>> THEN 0 ELSE program.idx
           appended == [program EXCEPT !.tree = grown, !.idx = at]
       IN  program' = IF Len(grown) > max_depth
                      THEN [appended EXCEPT !.pc = "done", !.outcome = "DepthReached",
                                            !.depth = max_depth]
                      ELSE IF ProgramAllReject(program.next_level)
                      THEN [appended EXCEPT !.pc = "done", !.outcome = "Rejected",
                                            !.depth = Len(grown) - 1]
                      ELSE [appended EXCEPT !.pc = "while"]
    /\ UNCHANGED <<machineVars, runVars, shift>>

NextBoth ==
    \/ WhileGuard
    \/ ScanAccept
    \/ ScanReject
    \/ ScanBudgetExceeded
    \/ Expand
    \/ EndLevel
    \/ ProgramWhileGuard
    \/ ProgramScanAccept
    \/ ProgramScanReject
    \/ ProgramScanBudgetExceeded
    \/ ProgramExpand
    \/ ProgramEndLevel

\* the two runs, one after the other, on the same machine, input and limits
SpecBoth == Init /\ [][NextBoth]_vars

-----------------------------------------------------------------------------
(* Vocabulary of the properties *)

Outcomes == {"Accepted", "Rejected", "BudgetExceeded", "DepthReached", "NoValidPaths"}

Exhaustions == {"BudgetExceeded", "DepthReached", "NoValidPaths"}

NonHalting(config) == config[2] /= accept_state /\ config[2] /= reject_state

HasAccept(level) == \E i \in 1..Len(level) : level[i][2] = accept_state

RECURSIVE Concat(_)
Concat(seqs) == IF seqs = <<>> THEN <<>> ELSE Head(seqs) \o Concat(Tail(seqs))

\* the machine's own step on a whole level: halted configurations have no
\* successor, every other one has those the table gives (or the implicit reject)
StepLevel(level) ==
    Concat([i \in 1..Len(level) |->
               IF NonHalting(level[i]) THEN Successors(level[i]) ELSE <<>>])

\* the configurations the machine can be in after exactly n transition
\* applications, independent of any limit and of the order of the scan
RECURSIVE ReachableAfter(_)
ReachableAfter(n) ==
    IF n = 0 THEN <<InitialConfig>> ELSE StepLevel(ReachableAfter(n - 1))

-----------------------------------------------------------------------------
\* C1: run always halts, with one of the outcomes Accepted, Rejected or an
\* exhaustion; an iteration of the while loop that does not halt appends a
\* level, and while run is still going the tree has at most max_depth levels
\* (one level when max_depth is 0).
C1_Termination ==
    /\ <>(pc = "done" /\ outcome \in Outcomes)
    /\ [][(pc = "for" /\ pc' = "while") => Len(tree') = Len(tree) + 1]_vars
    /\ [](pc /= "done" => (Len(tree) <= max_depth \/ Len(tree) = 1))

C1_Witness ==
    /\ pc = "done"
    /\ Len(tree) >= 3
    /\ transitions >= 3

\* C2: when run reports Accepted with depth d, level d of the tree holds an
\* accepting configuration and no earlier level does, and d is the least
\* number of transition applications after which the machine can be in
\* accept_state.
C2_MinimalAcceptDepth ==
    outcome = "Accepted" =>
        /\ depth = Len(tree) - 1
        /\ HasAccept(tree[depth + 1])
        /\ \A j \in 0..(depth - 1) : ~HasAccept(tree[j + 1])
        /\ HasAccept(ReachableAfter(depth))
        /\ \A j \in 0..(depth - 1) : ~HasAccept(ReachableAfter(j))

C2_Witness ==
    /\ outcome = "Accepted"
    /\ depth >= 2
    /\ Len(tree[depth + 1]) >= 2
    /\ \E i \in 1..Len(tree[depth + 1]) : tree[depth + 1][i][2] /= accept_state

\* C3: a machine whose start_state is its accept_state is reported Accepted
\* at depth 0, with a single configuration at level 0 and no transition
\* applied, whatever max_depth and max_transitions are.
C3_AcceptAtDepthZero ==
    (start_state = accept_state /\ pc = "done") =>
        /\ outcome = "Accepted"
        /\ depth = 0
        /\ tree = <<<<InitialConfig>>>>
        /\ transitions = 0

\* C4: with max_transitions = 0 the run ends in the exhaustion outcome, never
\* Accepted nor Rejected; the counter stays 0, nothing is scanned or expanded
\* and the tree keeps level 0 only.
C4_ZeroBudget ==
    max_transitions = 0 =>
        /\ transitions = 0
        /\ tree = <<<<InitialConfig>>>>
        /\ next_level = <<>>
        /\ idx = 0
        /\ pc \in {"while", "done"}
        /\ outcome \in {"none", "NoValidPaths"}
        /\ (pc = "done" => outcome = "NoValidPaths")

C4_Witness ==
    /\ max_transitions = 0
    /\ pc = "done"
    /\ outcome = "NoValidPaths"
    /\ start_state = accept_state
    /\ input_string /= <<>>

\* C5: whenever the level just appended holds only reject_state
\* configurations, run has halted with Rejected and the index of that level,
\* whatever max_depth and max_transitions are.
C5_UniformReject ==
    (Len(tree) >= 2 /\ AllReject(current_level)) =>
        /\ pc = "done"
        /\ outcome = "Rejected"
        /\ depth = Len(tree) - 1

\* the configurations whose successors have been generated: every
\* non-halting one of a level that has a successor level or whose scan has
\* ended, and those the for loop has passed in the level under scan
RECURSIVE NonHaltingIn(_, _)
NonHaltingIn(level, n) ==
    IF n = 0 THEN 0
    ELSE NonHaltingIn(level, n - 1) + (IF NonHalting(level[n]) THEN 1 ELSE 0)

RECURSIVE ExpandedBelow(_)
ExpandedBelow(n) ==
    IF n = 0 THEN 0
    ELSE ExpandedBelow(n - 1) + NonHaltingIn(tree[n], Len(tree[n]))

Expanded == ExpandedBelow(Len(tree) - 1) + NonHaltingIn(current_level, idx)

\* C6: the number of expanded configurations never exceeds max_transitions;
\* the counter counts one per non-halting configuration scanned, and the
\* increment that takes it past max_transitions halts the run with the
\* budget-exceeded report, generating no successor for that configuration
\* and leaving the tree without the partly built next level.
C6_BudgetBound ==
    /\ [](Expanded <= max_transitions)
    /\ [](transitions = Expanded + (IF outcome = "BudgetExceeded" THEN 1 ELSE 0))
    /\ [](transitions > max_transitions => pc = "done" /\ outcome = "BudgetExceeded")
    /\ [][(transitions' > max_transitions) =>
             /\ transitions' = max_transitions + 1
             /\ tree' = tree
             /\ next_level' = next_level
             /\ idx' = idx]_vars

C6_Witness ==
    /\ outcome = "BudgetExceeded"
    /\ max_transitions >= 2
    /\ transitions = max_transitions + 1
    /\ next_level /= <<>>
    /\ idx >= 1

\* C7: after a level expansion that leaves the tree with more levels than
\* max_depth, run halts with the max-depth report before it scans any
\* configuration of the newest level; for max_depth >= 1 the tree never has
\* more than max_depth + 1 levels.
C7_DepthLimit ==
    /\ [][(pc = "for" /\ idx = Len(current_level) /\ Len(tree') > max_depth) =>
             (pc' = "done" /\ outcome' = "DepthReached")]_vars
    /\ []((Len(tree) >= 2 /\ Len(tree) > max_depth) =>
             (pc = "done" /\ outcome = "DepthReached" /\ idx = 0))
    /\ [](max_depth >= 1 => Len(tree) <= max_depth + 1)

C7_Witness ==
    /\ outcome = "DepthReached"
    /\ max_depth >= 2
    /\ Len(tree) = max_depth + 1
    /\ ~AllReject(current_level)

\* number of successors the table gives a configuration, 1 for an undefined move
Applicable(config) ==
    LET n == Len(TransitionsGet(rows, config[2], HeadSymbol(config[3])))
    IN  IF n = 0 THEN 1 ELSE n

RECURSIVE WidthAfter(_, _)
WidthAfter(level, n) ==
    IF n = 0 THEN 0
    ELSE WidthAfter(level, n - 1)
         + (IF NonHalting(level[n]) THEN Applicable(level[n]) ELSE 0)

\* C8: the width of every level i+1 of the tree is the sum, over the
\* configurations of level i that are neither accepting nor rejecting, of
\* the number of table entries for (state, head symbol), an undefined move
\* counting 1.
C8_LevelWidths ==
    \A i \in 1..(Len(tree) - 1) : Len(tree[i + 1]) = WidthAfter(tree[i], Len(tree[i]))

C8_Witness ==
    \E i \in 1..(Len(tree) - 1) :
        /\ Len(tree[i + 1]) >= 3
        /\ \E j \in 1..Len(tree[i]) : tree[i][j][2] = reject_state
        /\ \E j \in 1..Len(tree[i]) :
              /\ NonHalting(tree[i][j])
              /\ TransitionsGet(rows, tree[i][j][2], HeadSymbol(tree[i][j][3])) = <<>>
        /\ \E j \in 1..Len(tree[i]) :
              /\ NonHalting(tree[i][j])
              /\ Len(TransitionsGet(rows, tree[i][j][2], HeadSymbol(tree[i][j][3]))) = 2

\* the machine defines no transition for (start_state, s), whatever s is
NoMoveStart == \A s \in Gamma : TransitionsGet(rows, start_state, s) = <<>>

\* C9 as stated: with no move from start_state, a non-empty input and the
\* default limits, run reports Rejected at depth 1, and reports an outcome
\* at depth 0 only if start_state = accept_state.
C9_NoMoveStartAsStated ==
    (NoMoveStart /\ input_string /= <<>> /\ pc = "done") =>
        \/ outcome = "Rejected" /\ depth = 1
        \/ start_state = accept_state /\ depth = 0 /\ outcome \in {"Accepted", "Rejected"}

\* C9 amended: with no move from start_state, a non-empty input and the
\* default limits, run reports Accepted at depth 0 if start_state is the
\* accept state, Rejected at depth 0 if it is the reject state, and
\* otherwise Rejected at depth 1, level 1 being the initial configuration
\* put in reject_state.
C9_NoMoveStart ==
    (NoMoveStart /\ input_string /= <<>> /\ pc = "done") =>
        IF start_state = accept_state
        THEN outcome = "Accepted" /\ depth = 0 /\ tree = <<<<InitialConfig>>>>
        ELSE IF start_state = reject_state
        THEN outcome = "Rejected" /\ depth = 0 /\ tree = <<<<InitialConfig>>>>
        ELSE /\ outcome = "Rejected"
             /\ depth = 1
             /\ tree = << <<InitialConfig>>, << <<<<>>, reject_state, input_string>> >> >>

C9_Witness ==
    /\ NoMoveStart
    /\ rows /= NoMoves
    /\ input_string /= <<>>
    /\ max_depth = DefaultMaxDepth
    /\ max_transitions = DefaultMaxTransitions
    /\ outcome = "Rejected"
    /\ depth = 1

\* the cell at offset k from the head of a blank-padded two-way infinite tape
Cell(config, k) ==
    IF k >= 0
    THEN (IF k + 1 <= Len(config[3]) THEN config[3][k + 1] ELSE Blank)
    ELSE (IF Len(config[1]) + k + 1 >= 1 THEN config[1][Len(config[1]) + k + 1] ELSE Blank)

Window(a, b) ==
    (0 - (Len(a[1]) + Len(b[1]) + 1))..(Len(a[3]) + Len(b[3]) + 1)

\* the first move of the pair stays among the cells both tapes already hold
InsideTapes ==
    \/ shift.direction = "L" /\ shift.original[1] /= <<>>
    \/ shift.direction = "R" /\ Len(shift.original[3]) >= 2

\* C10 as stated: after the two moves the left tape and the right tape are
\* the original ones, but for the cell the first move wrote, also when the
\* original left tape or right tape is empty.
C10_RoundTripAsStated ==
    shift.stage = 2 =>
        /\ shift.config[1] = shift.original[1]
        /\ shift.config[3] = WriteSymbol(shift.original[3], shift.write_symbol)

\* C10 amended: after the two moves the tape, read as a blank-padded
\* two-way infinite tape around the head, is the original one but for the
\* cell the first move wrote; the left and right tape are the original
\* sequences themselves when the first move stays among the cells they
\* hold, and otherwise carry one more blank at their outer end.
C10_RoundTrip ==
    shift.stage = 2 =>
        /\ \A k \in Window(shift.original, shift.config) :
              Cell(shift.config, k) =
                  IF k = 0 THEN shift.write_symbol ELSE Cell(shift.original, k)
        /\ InsideTapes =>
              /\ shift.config[1] = shift.original[1]
              /\ shift.config[3] = WriteSymbol(shift.original[3], shift.write_symbol)
        /\ (~InsideTapes /\ shift.direction = "L") =>
              /\ shift.config[1] = <<Blank>>
              /\ shift.config[3] = WriteSymbol(shift.original[3], shift.write_symbol)
        /\ (~InsideTapes /\ shift.direction = "R") =>
              /\ shift.config[1] = shift.original[1]
              /\ shift.config[3] = <<shift.write_symbol, Blank>>

C10_Witness ==
    /\ shift.stage = 2
    /\ shift.direction = "L"
    /\ shift.original[1] = <<>>
    /\ shift.original[3] /= <<>>
    /\ shift.write_symbol /= Blank
    /\ shift.config[1] = <<Blank>>

-----------------------------------------------------------------------------
\* C11: the while loop goes on to scan the last level whenever the counter
\* has not exceeded max_transitions, so it is left through line 116 only with
\* the counter above the budget; in particular, when the counter equals
\* max_transitions after a level was appended, an accepting configuration of
\* that level is reported as Accepted.
C11_GuardAtMetBudget ==
    /\ outcome = "NoValidPaths" => transitions > max_transitions
    /\ (/\ pc = "done"
        /\ transitions = max_transitions
        /\ Len(tree) >= 2
        /\ Len(tree) <= max_depth
        /\ HasAccept(current_level)) => outcome = "Accepted"

\* the configuration the for loop is at, and the entries the table has for it
Scanned == current_level[idx + 1]

ScannedEntries == TransitionsGet(rows, Scanned[2], HeadSymbol(Scanned[3]))

ScansUndefinedMove ==
    /\ pc = "for"
    /\ idx < Len(current_level)
    /\ NonHalting(Scanned)
    /\ ScannedEntries = <<>>

\* C12: scanning a configuration that is neither accepting nor rejecting
\* and has no table entry counts one transition and, within the budget,
\* appends exactly one successor to next_level, with the same left and right
\* tape and with reject_state; the run goes on (the lookup raises nothing),
\* the tree is untouched, and no step ever changes the keys of the table.
C12_UndefinedMove ==
    /\ [][ScansUndefinedMove =>
             /\ transitions' = transitions + 1
             /\ tree' = tree
             /\ IF transitions' > max_transitions
                THEN pc' = "done" /\ outcome' = "BudgetExceeded" /\ next_level' = next_level
                ELSE /\ next_level' = Append(next_level, <<Scanned[1], reject_state, Scanned[3]>>)
                     /\ idx' = idx + 1
                     /\ pc' = "for"
                     /\ outcome' = "none"]_vars
    /\ [][transition_keys' = transition_keys]_vars
    /\ [](transition_keys = KeysOf(rows))

C12_Witness ==
    /\ pc = "for"
    /\ idx >= 2
    /\ NonHalting(current_level[idx])
    /\ TransitionsGet(rows, current_level[idx][2], HeadSymbol(current_level[idx][3])) = <<>>
    /\ Len(next_level) >= 2
    /\ Last(next_level) = <<current_level[idx][1], reject_state, current_level[idx][3]>>
    /\ current_level[idx][1] /= <<>>

\* C13: every level i+1 of the tree is the concatenation, over the
\* configurations of level i in their stored order that are neither accepting
\* nor rejecting, of their successors in table order (the one implicit reject
\* successor for an undefined move); so level i is the sequence of
\* configurations the machine reaches in exactly i transition applications,
\* and during a scan next_level is that concatenation over the part scanned.
C13_LevelContents ==
    /\ \A i \in 1..(Len(tree) - 1) : tree[i + 1] = StepLevel(tree[i])
    /\ \A i \in 1..Len(tree) : tree[i] = ReachableAfter(i - 1)
    /\ pc = "for" => next_level = StepLevel(SubSeq(current_level, 1, idx))

C13_Witness ==
    \E i \in 2..(Len(tree) - 1) :
        /\ Len(tree[i]) >= 3
        /\ \E j \in 1..Len(tree[i]) : tree[i][j][2] = reject_state
        /\ \E j, k \in 1..Len(tree[i]) :
              /\ j < k
              /\ NonHalting(tree[i][j])
              /\ NonHalting(tree[i][k])
              /\ Successors(tree[i][j]) /= Successors(tree[i][k])
        /\ Len(tree[i + 1]) >= 3

\* the cell at offset k from the head of a blank-padded two-way infinite tape
\* after symbol w has been written under the head
WrittenCell(config, w, k) == IF k = 0 THEN w ELSE Cell(config, k)

\* C14: the successor under an entry (new state, write symbol, direction),
\* read as a blank-padded two-way infinite tape, is the parent tape with only
\* the head cell replaced by the write symbol, the head one cell further left
\* (L) or right (R) and the state set to the new state, also for an empty
\* left tape and for a right tape of at most one cell; the cell under the
\* head is always materialised.
C14_SingleStep ==
    shift.stage = 1 =>
        LET move == IF shift.direction = "L" THEN 0 - 1 ELSE 1
        IN  /\ shift.config[2] = "q1"
            /\ shift.config[3] /= <<>>
            /\ \A k \in Window(shift.original, shift.config) :
                  Cell(shift.config, k) =
                      WrittenCell(shift.original, shift.write_symbol, k + move)

C14_Witness ==
    /\ shift.stage = 1
    /\ shift.direction = "R"
    /\ shift.original[3] = <<>>
    /\ shift.original[1] /= <<>>
    /\ shift.write_symbol /= Blank
    /\ shift.config[3] = <<Blank>>

\* every configuration of the levels 0..d of the tree, each with its level
ListedLevels(d) ==
    Concat([i \in 1..(d + 1) |-> [j \in 1..Len(tree[i]) |-> <<i - 1, tree[i][j]>>]])

ScansAccepting ==
    /\ pc = "for"
    /\ idx < Len(current_level)
    /\ Scanned[2] = accept_state

\* C15: scanning an accepting configuration of level d halts the run at once
\* with Accepted(d) and leaves the tree as it is: the successors gathered
\* from earlier siblings are not added, so the reported tree has exactly the
\* levels 0..d, each of them complete, and the report lists every
\* configuration of every one of these levels.
C15_EagerAccept ==
    /\ [][ScansAccepting =>
             /\ pc' = "done"
             /\ outcome' = "Accepted"
             /\ depth' = Len(tree) - 1
             /\ tree' = tree
             /\ next_level' = next_level
             /\ transitions' = transitions]_vars
    /\ [](outcome = "Accepted" =>
             /\ Len(tree) = depth + 1
             /\ \A i \in 1..depth : tree[i + 1] = StepLevel(tree[i])
             /\ printed = ListedLevels(depth))
    /\ [](outcome /= "Accepted" => printed = <<>>)

C15_Witness ==
    /\ outcome = "Accepted"
    /\ depth >= 1
    /\ idx >= 1
    /\ Len(next_level) >= 2
    /\ Len(printed) >= 3


\* the scan of the current level has ended without any successor
ScanEndedEmpty == pc = "for" /\ idx = Len(current_level) /\ next_level = <<>>

\* C16: when the scan of the current level has produced no successor, the
\* step that ends the level appends nothing to the tree and halts the run
\* with Rejected and the index of the current level, whatever max_depth and
\* max_transitions are.
C16_EmptyNextLevel ==
    [][ScanEndedEmpty =>
          /\ tree' = tree
          /\ pc' = "done"
          /\ outcome' = "Rejected"
          /\ depth' = Len(tree) - 1]_vars


\* C17: run of program.py and run of TM_trace_nefario.py, given the same
\* machine, input and limits, build the same sequence of levels and report
\* the same kind of outcome with the same depth.
C17_SameEngine ==
    (pc = "done" /\ program.pc = "done") =>
        /\ program.tree = tree
        /\ program.outcome = outcome
        /\ outcome \in {"Accepted", "Rejected"} => program.depth = depth


\* C18: during a run level 0 is always the single initial configuration and
\* the tree is never empty; no step changes or removes a level already in
\* the tree, a step adds at most one level and never an empty one; the tree
\* stays as it is while a level is scanned and expanded, and every loop
\* iteration that does not halt appends exactly one level, the non-empty
\* next_level.
C18_AppendOnly ==
    /\ [](/\ tree /= <<>>
          /\ tree[1] = << <<<<>>, start_state, input_string>> >>
          /\ \A i \in 1..Len(tree) : tree[i] /= <<>>)
    /\ [][/\ Len(tree) <= Len(tree')
          /\ Len(tree') <= Len(tree) + 1
          /\ \A i \in 1..Len(tree) : tree'[i] = tree[i]
          /\ (pc = "while" \/ pc' = "for") => tree' = tree
          /\ (pc = "for" /\ pc' = "while") =>
                 /\ next_level /= <<>>
                 /\ tree' = Append(tree, next_level)]_vars

\* a third loop iteration has been entered after two that appended a level,
\* the first of them from a configuration with several successors
C18_Witness ==
    /\ pc = "for"
    /\ Len(tree) = 3
    /\ Len(tree[2]) >= 2
    /\ idx >= 1
    /\ next_level /= <<>>


\* depths up to which the machine's computations are followed
Depths == 0..(MaxDepthLimit + 2)

\* C19: whenever run reports Rejected, the tree holds every configuration
\* the machine can reach, level by level; its last level, whose index is the
\* depth reported, holds reject_state configurations only, so no branch goes
\* on; no level of the tree and no depth of the machine's computations has
\* an accept_state configuration; and neither limit has cut the run short:
\* the counter is within max_transitions and the tree within max_depth.
C19_RejectSound ==
    outcome = "Rejected" =>
        /\ depth = Len(tree) - 1
        /\ \A i \in 1..Len(tree) : tree[i] = ReachableAfter(i - 1)
        /\ \A i \in 1..Len(current_level) : current_level[i][2] = reject_state
        /\ StepLevel(current_level) = <<>>
        /\ \A i \in 1..Len(tree) : ~HasAccept(tree[i])
        /\ \A n \in Depths : ~HasAccept(ReachableAfter(n))
        /\ \A n \in Depths : n > depth => ReachableAfter(n) = <<>>
        /\ transitions <= max_transitions
        /\ Len(tree) <= max_depth

\* Rejected at depth 2 or more, below max_depth, with several dead branches,
\* one of which was expanded a level earlier than it was found dead
C19_Witness ==
    /\ outcome = "Rejected"
    /\ depth >= 2
    /\ depth < max_depth
    /\ Len(current_level) >= 2
    /\ Len(tree[depth]) >= 2


\* the machine's shortest accepting computation has exactly n transitions
AcceptFirstAt(n) ==
    /\ HasAccept(ReachableAfter(n))
    /\ \A m \in 0..(n - 1) : ~HasAccept(ReachableAfter(m))

\* the configurations the machine expands at the depths below n
RECURSIVE ExpansionsBelow(_)
ExpansionsBelow(n) ==
    IF n = 0 THEN 0
    ELSE ExpansionsBelow(n - 1)
         + NonHaltingIn(ReachableAfter(n - 1), Len(ReachableAfter(n - 1)))

\* C20 as stated: for max_depth >= 1, Accepted is reported only with a depth
\* of at most max_depth - 1, and a machine whose shortest accepting
\* computation has exactly max_depth transitions ends with the max-depth
\* report, the accepting configuration being in level max_depth of the tree.
C20_AcceptBelowLimitAsStated ==
    /\ (outcome = "Accepted" /\ max_depth >= 1) => depth <= max_depth - 1
    /\ (pc = "done" /\ max_depth >= 1 /\ AcceptFirstAt(max_depth)) =>
           /\ outcome = "DepthReached"
           /\ Len(tree) = max_depth + 1
           /\ HasAccept(tree[max_depth + 1])

\* C20: for max_depth >= 1, Accepted is reported only with a depth of at most
\* max_depth - 1; a machine whose shortest accepting computation has exactly
\* max_depth transitions ends in an exhaustion, never in Accepted or
\* Rejected: in the max-depth report, with the accepting configuration in
\* level max_depth of the tree, exactly when max_transitions covers the
\* expansions of the levels below max_depth, and otherwise in one of the two
\* budget reports with fewer levels in the tree.
C20_AcceptBelowLimit ==
    /\ (outcome = "Accepted" /\ max_depth >= 1) => depth <= max_depth - 1
    /\ (pc = "done" /\ max_depth >= 1 /\ AcceptFirstAt(max_depth)) =>
           /\ outcome \in Exhaustions
           /\ outcome = "DepthReached" <=> ExpansionsBelow(max_depth) <= max_transitions
           /\ outcome = "DepthReached" =>
                  /\ depth = max_depth
                  /\ Len(tree) = max_depth + 1
                  /\ HasAccept(tree[max_depth + 1])
           /\ outcome /= "DepthReached" =>
                  /\ Len(tree) <= max_depth
                  /\ \A i \in 1..Len(tree) : ~HasAccept(tree[i])

\* the max-depth report with an accepting configuration, next to another
\* configuration, in the level that was appended last and never scanned
C20_Witness ==
    /\ outcome = "DepthReached"
    /\ max_depth >= 2
    /\ AcceptFirstAt(max_depth)
    /\ Len(tree) = max_depth + 1
    /\ HasAccept(current_level)
    /\ Len(current_level) >= 2
    /\ idx = 0

====
